---- MODULE Spec2Model ----
\* One render cycle of trial_plot_mention_counts.py: the primary table is
\* filtered to the display window, the brand ranking and selection are made,
\* the selected-brand chart is emitted, the weekly channel summary is joined
\* in, and the optional Top-10 section closes the page.
EXTENDS Integers, Sequences, FiniteSets, TLC

VARIABLES df, chwFile, week, brand_cols, totals, default_brands, selected,
          page, sub, agg, show_top10, totals_all, top10, week_totals_df, pc

vars == <<df, chwFile, week, brand_cols, totals, default_brands, selected,
          page, sub, agg, show_top10, totals_all, top10, week_totals_df, pc>>

----------------------------------------------------------------------------
\* Bounds of the model.

\* Largest number of brand columns of a primary table.
NBrands == 11
\* Largest number of rows of a primary table.
MaxRows == 2
\* The user may pick any sub-list of the first MaxPick multiselect options.
MaxPick == 2
\* Largest number of rows of a weekly summary whose channels and metrics vary.
MaxChwRows == 4
\* Largest number of rows of a weekly summary whose week buckets vary.
MaxWeekRows == 2

----------------------------------------------------------------------------
\* Values.

\* A missing cell (pandas NaN / NaT); counts and day numbers are naturals.
NaN == -1

\* Day of the year 2025 of a calendar date, as pd.to_datetime orders dates.
DaysBeforeMonth(m) ==
    CASE m = 1 -> 0   [] m = 2 -> 31  [] m = 3 -> 59  [] m = 4 -> 90
      [] m = 5 -> 120 [] m = 6 -> 151 [] m = 7 -> 181 [] m = 8 -> 212
      [] m = 9 -> 243 [] m = 10 -> 273 [] m = 11 -> 304 [] m = 12 -> 334

Day(m, d) == DaysBeforeMonth(m) + d

START_DATE == Day(8, 28)
END_DATE == Day(9, 2)

\* Column names of the primary table, in alphabetical order.
BrandNames == <<"b01", "b02", "b03", "b04", "b05", "b06", "b07", "b08",
                "b09", "b10", "b11", "b12", "b13">>

MetaCols == <<"date", "total_mentions", "num_brands_mentioned">>

Range(s) == {s[i] : i \in 1..Len(s)}

\* Position of a name in a list of names (0 when absent).
IndexOf(s, x) == IF x \in Range(s) THEN CHOOSE i \in 1..Len(s) : s[i] = x ELSE 0

Min(a, b) == IF a <= b THEN a ELSE b

----------------------------------------------------------------------------
\* Window filter (lines 30-40).

\* A window that leaves its last day out.
InWindowLoose(d) == START_DATE <= d /\ d < END_DATE

\* (df['date'] >= START_DATE) & (df['date'] <= END_DATE); NaT compares False.
InWindow(d) == d # NaN /\ START_DATE <= d /\ d <= END_DATE

\* [c for c in ['date', 'total_mentions', 'num_brands_mentioned'] if c in columns]
DropCols(columns) == SelectSeq(MetaCols, LAMBDA c : c \in Range(columns))

\* [c for c in columns if c not in drop_cols]
BrandCols(columns) == SelectSeq(columns, LAMBDA c : c \notin Range(DropCols(columns)))

\* fillna(0) of one cell
FillNa(v) == IF v = NaN THEN 0 ELSE v

\* week[brand_cols] = week[brand_cols].fillna(0), one row
FillRow(row, cols) ==
    [c \in DOMAIN row |-> IF c \in Range(cols) THEN FillNa(row[c]) ELSE row[c]]

\* df[mask].copy() followed by the fill of the brand columns
WindowFilter(table) ==
    LET kept == SelectSeq(table.rows, LAMBDA r : InWindow(r["date"]))
    IN [columns |-> table.columns,
        rows |-> [i \in 1..Len(kept) |-> FillRow(kept[i], BrandCols(table.columns))]]

----------------------------------------------------------------------------
\* Ranking (lines 45-46, 156-157, 176).

\* Series.sum() of one column: missing cells are skipped.
ColSum(rows, c) ==
    LET F[i \in 0..Len(rows)] ==
            IF i = 0 THEN 0 ELSE F[i - 1] + FillNa(rows[i][c])
    IN F[Len(rows)]

\* table[cols].sum(): one entry per column, in column order.
Sums(table, cols) ==
    [i \in 1..Len(cols) |-> [brand |-> cols[i], value |-> ColSum(table.rows, cols[i])]]

\* The orders in which a sort that is not stable may leave equal keys: a
\* ranking of the positions 1..n that decides among equal keys only.  The
\* identity is the outcome of a stable sort.
TieIdentity(n) == [i \in 1..n |-> i]

TieOrders(n) ==
    {TieIdentity(n), [i \in 1..n |-> n + 1 - i]}
    \cup {[i \in 1..n |-> IF i = k THEN k + 1 ELSE IF i = k + 1 THEN k ELSE i] :
            k \in 1..(n - 1)}

\* Position of a brand in an unsorted series.
PosIn(series, b) == CHOOSE i \in 1..Len(series) : series[i].brand = b

\* A sort that puts the smallest sum first.
SortValuesAsc(series, tie) ==
    SortSeq(series, LAMBDA a, b :
                \/ a.value < b.value
                \/ a.value = b.value /\ tie[PosIn(series, a.brand)] < tie[PosIn(series, b.brand)])

\* Series.sort_values(ascending=False), default kind (quicksort): largest sum
\* first, equal sums in the order tie gives.
SortValuesDesc(series, tie) ==
    SortSeq(series, LAMBDA a, b :
                \/ a.value > b.value
                \/ a.value = b.value /\ tie[PosIn(series, a.brand)] < tie[PosIn(series, b.brand)])

\* series.head(n).index
HeadIndex(series, n) == [i \in 1..Min(n, Len(series)) |-> series[i].brand]

\* Default selection size (line 46) and Top-N breadth (line 157).
TopDefault == 5
TopOverall == 10

\* What st.multiselect may return: the default, or what the user picked among
\* the options.
UserSelections(options, default) ==
    {default} \cup {SelectSeq(options, LAMBDA c : c \in S) :
                      S \in SUBSET Range(SubSeq(options, 1, Min(MaxPick, Len(options))))}

----------------------------------------------------------------------------
\* Reshaper (lines 55, 69, 163).

\* week[['date'] + cols].melt(id_vars='date', var_name='brand', value_name='mentions')
Melt(table, cols) ==
    LET n == Len(table.rows)
    IN [k \in 1..(n * Len(cols)) |->
          [date |-> table.rows[((k - 1) % n) + 1]["date"],
           brand |-> cols[((k - 1) \div n) + 1],
           mentions |-> table.rows[((k - 1) % n) + 1][cols[((k - 1) \div n) + 1]]]]

\* long_df.sort_values(["brand", "date"]).reset_index(drop=True)
SortBrandDate(long) ==
    SortSeq(long, LAMBDA a, b :
                \/ IndexOf(BrandNames, a.brand) < IndexOf(BrandNames, b.brand)
                \/ a.brand = b.brand /\ a.date < b.date)

----------------------------------------------------------------------------
\* Weekly channel summary (lines 72-150).

\* Channel names, in alphabetical order.
ChannelNames == <<"chA", "chB", "chC", "chD">>

\* A channel cell left empty in the file.
NoChannel == ""

need_cols == {"week_start", "keyword", "channel", "subscribers", "views",
              "likeCount", "commentCount"}

\* Length of a synthesized week bucket: week_start + pd.Timedelta(days=6).
WeekSpan == 6

DigitChars == <<"0", "1", "2", "3", "4", "5", "6", "7", "8", "9">>

\* pd.to_numeric(errors="coerce") of one raw cell, a tuple of characters: a
\* run of digits is its decimal value, anything else (the empty cell too) is NaN.
ToNumeric(raw) ==
    LET F[i \in 0..Len(raw)] ==
            IF i = 0 THEN 0 ELSE 10 * F[i - 1] + (IndexOf(DigitChars, raw[i]) - 1)
    IN IF Len(raw) > 0 /\ \A i \in 1..Len(raw) : raw[i] \in Range(DigitChars)
       THEN F[Len(raw)]
       ELSE NaN

\* pd.to_numeric(col, errors="coerce").fillna(0).astype(int)
Coerce(raw) == FillNa(ToNumeric(raw))

\* chw["week_end"] after lines 84-87: the parsed column when the file has
\* one, week_start + 6 days otherwise.
WeekEnd(file, r) ==
    IF "week_end" \in file.columns THEN r.week_end
    ELSE IF r.week_start = NaN THEN NaN ELSE r.week_start + WeekSpan

\* (chw["week_start"] <= end_dt) & (chw["week_end"] >= start_dt); a
\* comparison with NaT is False.
Overlaps(file, r) ==
    /\ r.week_start # NaN /\ WeekEnd(file, r) # NaN
    /\ r.week_start <= END_DATE /\ WeekEnd(file, r) >= START_DATE

\* One row of sub with its four metrics coerced (lines 93-99).
SubRow(r) ==
    [keyword |-> r.keyword, channel |-> r.channel,
     subscribers |-> Coerce(r.subscribers), views |-> Coerce(r.views),
     likeCount |-> Coerce(r.likeCount), commentCount |-> Coerce(r.commentCount)]

\* sub: chw.loc[mask, ...] (lines 90-99)
Sub(file, sel) ==
    LET kept == SelectSeq(file.rows,
                          LAMBDA r : Overlaps(file, r) /\ r.keyword \in Range(sel))
    IN [i \in 1..Len(kept) |-> SubRow(kept[i])]

\* The rows of one (keyword, channel) group.
Group(rows, key) ==
    SelectSeq(rows, LAMBDA r : r.keyword = key[1] /\ r.channel = key[2])

\* Sum and maximum of one field over the rows of a group.
FieldSum(rows, field) ==
    LET F[i \in 0..Len(rows)] == IF i = 0 THEN 0 ELSE F[i - 1] + rows[i][field]
    IN F[Len(rows)]

FieldMax(rows, field) ==
    CHOOSE v \in {rows[i][field] : i \in 1..Len(rows)} :
        \A i \in 1..Len(rows) : rows[i][field] <= v

KeyLess(a, b) ==
    \/ IndexOf(BrandNames, a[1]) < IndexOf(BrandNames, b[1])
    \/ a[1] = b[1] /\ IndexOf(ChannelNames, a[2]) < IndexOf(ChannelNames, b[2])

\* The distinct keys in the order of their first row (a groupby with
\* sort=False).
GroupKeysFirstSeen(rows) ==
    LET F[i \in 0..Len(rows)] ==
            IF i = 0 THEN <<>>
            ELSE IF \/ rows[i].channel = NoChannel
                    \/ \E j \in 1..(i - 1) : /\ rows[j].keyword = rows[i].keyword
                                             /\ rows[j].channel = rows[i].channel
                 THEN F[i - 1]
                 ELSE Append(F[i - 1], <<rows[i].keyword, rows[i].channel>>)
    IN F[Len(rows)]

\* The groups of sub.groupby(["keyword", "channel"]): the distinct keys, rows
\* with a missing channel dropped (dropna), in sorted key order (sort=True).
GroupKeys(rows) ==
    LET keys == {<<rows[i].keyword, rows[i].channel>> :
                    i \in {j \in 1..Len(rows) : rows[j].channel # NoChannel}}
    IN [r \in 1..Cardinality(keys) |->
          CHOOSE k \in keys : Cardinality({x \in keys : KeyLess(x, k)}) = r - 1]

\* An aggregation that adds subscribers up.
AggRowSummed(rows, key) ==
    [keyword |-> key[1], channel |-> key[2],
     subscribers |-> FieldSum(Group(rows, key), "subscribers"),
     views |-> FieldSum(Group(rows, key), "views"),
     likeCount |-> FieldSum(Group(rows, key), "likeCount"),
     commentCount |-> FieldSum(Group(rows, key), "commentCount"),
     engagement |-> FieldSum(Group(rows, key), "views")
                    + FieldSum(Group(rows, key), "likeCount")
                    + FieldSum(Group(rows, key), "commentCount")]

\* One row of agg (lines 103-110).
AggRow(rows, key) ==
    [keyword |-> key[1], channel |-> key[2],
     subscribers |-> FieldMax(Group(rows, key), "subscribers"),
     views |-> FieldSum(Group(rows, key), "views"),
     likeCount |-> FieldSum(Group(rows, key), "likeCount"),
     commentCount |-> FieldSum(Group(rows, key), "commentCount"),
     engagement |-> FieldSum(Group(rows, key), "views")
                    + FieldSum(Group(rows, key), "likeCount")
                    + FieldSum(Group(rows, key), "commentCount")]

Agg(rows) == [i \in 1..Len(GroupKeys(rows)) |-> AggRow(rows, GroupKeys(rows)[i])]

\* Rows kept per brand by .groupby("keyword").head(3) (lines 114, 126).
TopPerBrand == 3

\* table.sort_values(["keyword", metric], ascending=[True, False]): a sort on
\* two keys, which pandas makes stable (equal keys keep the order of table).
SortKeywordMetric(table, metric) ==
    SortSeq(table, LAMBDA a, b :
        \/ IndexOf(BrandNames, a.keyword) < IndexOf(BrandNames, b.keyword)
        \/ /\ a.keyword = b.keyword
           /\ \/ a[metric] > b[metric]
              \/ a[metric] = b[metric] /\ IndexOf(table, a) < IndexOf(table, b))

\* A head that keeps every row.
GroupHeadAll(rows, n) == rows

\* .groupby("keyword").head(n): the first n rows of every brand, order kept.
GroupHead(rows, n) ==
    SelectSeq(rows, LAMBDA r :
        Cardinality({j \in 1..(IndexOf(rows, r) - 1) : rows[j].keyword = r.keyword}) < n)

top_reach(table) == GroupHead(SortKeywordMetric(table, "subscribers"), TopPerBrand)
top_eng(table) == GroupHead(SortKeywordMetric(table, "engagement"), TopPerBrand)

\* min_w and max_w of the hint shown when nothing is left after filtering
\* (lines 138-140); NaN when the file has no dated row.
AvailableWeeks(file) ==
    LET starts == {file.rows[i].week_start : i \in 1..Len(file.rows)} \ {NaN}
        ends == {WeekEnd(file, file.rows[i]) : i \in 1..Len(file.rows)} \ {NaN}
    IN [min_w |-> IF starts = {} THEN NaN ELSE CHOOSE v \in starts : \A w \in starts : v <= w,
        max_w |-> IF ends = {} THEN NaN ELSE CHOOSE v \in ends : \A w \in ends : w <= v,
        brands |-> {file.rows[i].keyword : i \in 1..Len(file.rows)}]

----------------------------------------------------------------------------
\* Input files.

\* Columns of a primary table with nb brand columns.
Columns(nb) == <<"date">> \o SubSeq(BrandNames, 1, nb)
               \o <<"total_mentions", "num_brands_mentioned">>

\* The count of brand column i in a row of the given shape; "gaps" leaves
\* every third cell empty.
Cell(shape, i, nb) ==
    CASE shape = "asc" -> i
      [] shape = "desc" -> nb + 1 - i
      [] shape = "pairs" -> 2 * (i \div 2)
      [] shape = "gaps" -> IF i % 3 = 0 THEN NaN ELSE 1

PrimaryRow(nb, date, shape) ==
    LET Tot[i \in 0..nb] == IF i = 0 THEN 0 ELSE Tot[i - 1] + FillNa(Cell(shape, i, nb))
    IN [c \in Range(Columns(nb)) |->
          CASE c = "date" -> date
            [] c = "total_mentions" -> Tot[nb]
            [] c = "num_brands_mentioned" ->
                 Cardinality({i \in 1..nb : FillNa(Cell(shape, i, nb)) > 0})
            [] OTHER -> Cell(shape, IndexOf(BrandNames, c), nb)]

PrimaryTable(nb, t) ==
    [columns |-> Columns(nb),
     rows |-> [i \in 1..Len(t) |-> PrimaryRow(nb, t[i][1], t[i][2])]]

\* Rows dated around both ends of the window, two shapes for each date.
RowCands ==
    {<<START_DATE - 1, "desc">>, <<START_DATE - 1, "gaps">>,
     <<START_DATE, "asc">>, <<START_DATE, "pairs">>,
     <<END_DATE, "gaps">>, <<END_DATE, "asc">>,
     <<END_DATE + 1, "desc">>, <<END_DATE + 1, "pairs">>}

BrandCounts == {0, 3, 6, NBrands}

\* Primary tables: dates unique and ascending.
PrimaryTables ==
    {PrimaryTable(nb, t) :
        nb \in BrandCounts,
        t \in {u \in UNION {[1..n -> RowCands] : n \in 0..MaxRows} :
                 \A i \in 1..Len(u) : \A j \in 1..Len(u) : i < j => u[i][1] < u[j][1]}}

\* A primary table of three brands whose sums are all different.
PrimarySample ==
    PrimaryTable(3, <<<<START_DATE - 1, "desc">>, <<START_DATE, "asc">>, <<END_DATE, "asc">>>>)

\* Raw metric cells of a weekly summary row.
Metrics(p) ==
    CASE p = "P1" -> [subscribers |-> <<"1", "0">>, views |-> <<"3">>,
                      likeCount |-> <<"x">>, commentCount |-> <<>>]
      [] p = "P2" -> [subscribers |-> <<"5">>, views |-> <<"1">>,
                      likeCount |-> <<"2">>, commentCount |-> <<"4">>]

ChwRow(ws, we, k, c, p) ==
    [week_start |-> ws, week_end |-> we, keyword |-> k, channel |-> c,
     subscribers |-> Metrics(p).subscribers, views |-> Metrics(p).views,
     likeCount |-> Metrics(p).likeCount, commentCount |-> Metrics(p).commentCount]

ChwFile(cols, rows) == [exists |-> TRUE, readable |-> TRUE, columns |-> cols, rows |-> rows]

ChwSample ==
    ChwFile(need_cols, <<ChwRow(START_DATE, NaN, "b01", "chB", "P1"),
                         ChwRow(START_DATE, NaN, "b01", "chA", "P2")>>)

\* A summary that is absent, one that cannot be read, one without its columns.
ChwBroken ==
    {[exists |-> FALSE, readable |-> FALSE, columns |-> {}, rows |-> <<>>],
     [exists |-> TRUE, readable |-> FALSE, columns |-> {}, rows |-> <<>>],
     ChwFile(need_cols \ {"subscribers"}, <<>>)}

SeqsUpTo(S, n) == UNION {[1..k -> S] : k \in 0..n}

\* Summaries of one overlapping week whose channels and metrics vary.
ChannelRowChoices ==
    {ChwRow(START_DATE, NaN, "b01", c, "P1") : c \in Range(ChannelNames)}
    \cup {ChwRow(START_DATE, NaN, "b01", "chA", "P2"),
          ChwRow(START_DATE, NaN, "b02", "chA", "P2"),
          ChwRow(START_DATE, NaN, "b01", NoChannel, "P2")}

\* Files of up to MaxChwRows of these rows in any order, no row twice.
ChannelFiles ==
    {ChwFile(need_cols, r) :
        r \in {q \in SeqsUpTo(ChannelRowChoices, MaxChwRows) :
                 \A i \in 1..Len(q) : \A j \in 1..Len(q) : i < j => q[i] # q[j]}}

\* Week buckets before, across both ends of, and after the window.
WeekStarts == {START_DATE - 7, START_DATE - 6, START_DATE, END_DATE, END_DATE + 1}

WeekFiles ==
    {ChwFile(need_cols, r) :
        r \in SeqsUpTo({ChwRow(ws, NaN, k, "chA", "P1") :
                           ws \in WeekStarts, k \in {"b01", "b02"}}, MaxWeekRows)}
    \cup
    {ChwFile(need_cols \cup {"week_end"}, r) :
        r \in SeqsUpTo(UNION {{ChwRow(ws, we, k, "chA", "P1") : we \in {NaN, ws + WeekSpan}} :
                                 ws \in WeekStarts, k \in {"b01", "b02"}}, MaxWeekRows)}

----------------------------------------------------------------------------
\* The render cycle.

Emit(kind, body) == [kind |-> kind, body |-> body]

Emitted(kind) == \E i \in 1..Len(page) : page[i].kind = kind

BodyOf(kind) == page[CHOOSE i \in 1..Len(page) : page[i].kind = kind].body

StartState ==
    /\ week = [columns |-> <<>>, rows |-> <<>>]
    /\ brand_cols = <<>>
    /\ totals = <<>>
    /\ default_brands = <<>>
    /\ selected = <<>>
    /\ page = <<>>
    /\ sub = <<>>
    /\ agg = <<>>
    /\ show_top10 = FALSE
    /\ totals_all = <<>>
    /\ top10 = <<>>
    /\ week_totals_df = <<>>
    /\ pc = "filter"

InitBroken == df = PrimarySample /\ chwFile \in ChwBroken /\ StartState

InitPrimary == \/ df \in PrimaryTables /\ chwFile = ChwSample /\ StartState
               \/ InitBroken

InitChannels == \/ df = PrimarySample /\ chwFile \in ChannelFiles /\ StartState
                \/ InitBroken

InitOverlap == \/ df = PrimarySample /\ chwFile \in WeekFiles /\ StartState
               \/ InitBroken

\* Lines 30-43.
Filter ==
    /\ pc = "filter"
    /\ week' = WindowFilter(df)
    /\ brand_cols' = BrandCols(df.columns)
    /\ page' = Append(page, Emit("title", <<START_DATE, END_DATE>>))
    /\ pc' = "select"
    /\ UNCHANGED <<df, chwFile, totals, default_brands, selected, sub, agg,
                   show_top10, totals_all, top10, week_totals_df>>

\* Lines 45-50.
Select ==
    /\ pc = "select"
    /\ \E tie \in TieOrders(Len(brand_cols)) :
          totals' = SortValuesDesc(Sums(week, brand_cols), tie)
    /\ default_brands' = HeadIndex(totals', TopDefault)
    /\ selected' \in UserSelections(brand_cols, default_brands')
    /\ pc' = "primary"
    /\ UNCHANGED <<df, chwFile, week, brand_cols, page, sub, agg, show_top10,
                   totals_all, top10, week_totals_df>>

\* Lines 52-69.
RenderPrimary ==
    /\ pc = "primary"
    /\ page' = IF selected = <<>>
               THEN Append(page, Emit("select_info", "Select at least one brand"))
               ELSE page \o <<Emit("chart", Melt(week, selected)),
                              Emit("table", SortBrandDate(Melt(week, selected)))>>
    /\ pc' = "secondary"
    /\ UNCHANGED <<df, chwFile, week, brand_cols, totals, default_brands, selected,
                   sub, agg, show_top10, totals_all, top10, week_totals_df>>

SecondaryDone ==
    /\ pc' = "top10"
    /\ UNCHANGED <<df, chwFile, week, brand_cols, totals, default_brands, selected,
                   show_top10, totals_all, top10, week_totals_df>>

\* Lines 72, 148-149 with nothing selected.
SecondarySkipped ==
    /\ pc = "secondary" /\ selected = <<>>
    /\ UNCHANGED <<page, sub, agg>>
    /\ SecondaryDone

\* A tip shown whether or not a brand is selected.
SecondaryTipUnguarded ==
    /\ pc = "secondary" /\ ~chwFile.exists
    /\ page' = Append(page, Emit("tip", "Run your YouTube collector"))
    /\ UNCHANGED <<sub, agg>>
    /\ SecondaryDone

\* Lines 148-150.
SecondaryTip ==
    /\ pc = "secondary" /\ selected # <<>> /\ ~chwFile.exists
    /\ page' = Append(page, Emit("tip", "Run your YouTube collector"))
    /\ UNCHANGED <<sub, agg>>
    /\ SecondaryDone

\* A load failure that is not caught.
SecondaryLoadFailedAborts ==
    /\ pc = "secondary" /\ selected # <<>> /\ chwFile.exists /\ ~chwFile.readable
    /\ page' = <<Emit("exception", "read_csv")>>
    /\ pc' = "aborted"
    /\ UNCHANGED <<df, chwFile, week, brand_cols, totals, default_brands, selected,
                   sub, agg, show_top10, totals_all, top10, week_totals_df>>

\* Lines 73-74, 146-147: reading the file raises.
SecondaryLoadFailed ==
    /\ pc = "secondary" /\ selected # <<>> /\ chwFile.exists /\ ~chwFile.readable
    /\ page' = Append(page, Emit("warning", "Could not load weekly channel summary"))
    /\ UNCHANGED <<sub, agg>>
    /\ SecondaryDone

\* Lines 75-76, 144-145.
SecondaryMissingCols ==
    /\ pc = "secondary" /\ selected # <<>> /\ chwFile.exists /\ chwFile.readable
    /\ ~(need_cols \subseteq chwFile.columns)
    /\ page' = Append(page, Emit("sec_info", "missing required columns"))
    /\ UNCHANGED <<sub, agg>>
    /\ SecondaryDone

\* Lines 77-101, 135-143.
SecondaryEmpty ==
    /\ pc = "secondary" /\ selected # <<>> /\ chwFile.exists /\ chwFile.readable
    /\ need_cols \subseteq chwFile.columns
    /\ sub' = Sub(chwFile, selected)
    /\ sub' = <<>>
    /\ page' = Append(page, Emit("sec_info", AvailableWeeks(chwFile)))
    /\ UNCHANGED agg
    /\ SecondaryDone

\* Lines 77-134.
SecondaryTables ==
    /\ pc = "secondary" /\ selected # <<>> /\ chwFile.exists /\ chwFile.readable
    /\ need_cols \subseteq chwFile.columns
    /\ sub' = Sub(chwFile, selected)
    /\ sub' # <<>>
    /\ agg' = Agg(sub')
    /\ page' = page \o <<Emit("reach", top_reach(agg')), Emit("eng", top_eng(agg'))>>
    /\ SecondaryDone

\* Sums ranked over the display window only.
SumsAllFromWeek == Sums(week, BrandCols(df.columns))

\* df[brand_cols_all].fillna(0).sum() (lines 38-39, 156)
SumsAll == Sums(df, BrandCols(df.columns))

\* Lines 153-157.
Top10Toggle ==
    /\ pc = "top10"
    /\ page' = Append(page, Emit("divider", "---"))
    /\ show_top10' \in BOOLEAN
    /\ IF show_top10'
       THEN /\ \E tie \in TieOrders(Len(SumsAll)) :
                  totals_all' = SortValuesDesc(SumsAll, tie)
            /\ top10' = HeadIndex(totals_all', TopOverall)
            /\ pc' = "top10_render"
       ELSE /\ UNCHANGED <<totals_all, top10>>
            /\ pc' = "done"
    /\ UNCHANGED <<df, chwFile, week, brand_cols, totals, default_brands, selected,
                   sub, agg, week_totals_df>>

\* Lines 159-179.
Top10Render ==
    /\ pc = "top10_render"
    /\ IF top10 = <<>>
       THEN /\ page' = Append(page, Emit("top10_info", "No brands available"))
            /\ UNCHANGED week_totals_df
       ELSE /\ \E tie \in TieOrders(Len(top10)) :
                  week_totals_df' = SortValuesDesc(Sums(week, top10), tie)
            /\ page' = page \o <<Emit("chart2", Melt(week, top10)),
                                 Emit("week_totals", week_totals_df')>>
    /\ pc' = "done"
    /\ UNCHANGED <<df, chwFile, week, brand_cols, totals, default_brands, selected,
                   sub, agg, show_top10, totals_all, top10>>

Next ==
    \/ Filter
    \/ Select
    \/ RenderPrimary
    \/ SecondarySkipped
    \/ SecondaryTip
    \/ SecondaryLoadFailed
    \/ SecondaryMissingCols
    \/ SecondaryEmpty
    \/ SecondaryTables
    \/ Top10Toggle
    \/ Top10Render

SpecPrimary == InitPrimary /\ [][Next]_vars
SpecChannels == InitChannels /\ [][Next]_vars
SpecOverlap == InitOverlap /\ [][Next]_vars

----------------------------------------------------------------------------
\* Properties of the primary pipeline.  They are stated on the loaded table
\* df itself, not through the operators above.

\* The brand columns of the loaded table.
BrandsOfDf ==
    {c \in Range(df.columns) : c \notin {"date", "total_mentions", "num_brands_mentioned"}}

\* The rows of df whose date lies in the window.
InsideWindow ==
    {j \in 1..Len(df.rows) :
        START_DATE <= df.rows[j]["date"] /\ df.rows[j]["date"] <= END_DATE}

\* Sum of column b over the rows of df picked by rowset, a missing cell as 0.
SumOver(rowset, b) ==
    LET F[j \in 0..Len(df.rows)] ==
            IF j = 0 THEN 0
            ELSE IF j \in rowset /\ df.rows[j][b] # NaN THEN F[j - 1] + df.rows[j][b]
            ELSE F[j - 1]
    IN F[Len(df.rows)]

WindowSum(b) == SumOver(InsideWindow, b)
FullSum(b) == SumOver(1..Len(df.rows), b)

NoRepeats(s) == \A i \in 1..Len(s) : \A j \in 1..Len(s) : i # j => s[i] # s[j]

\* C1: week holds exactly the rows of df dated inside [START_DATE, END_DATE],
\* and in them no brand cell is missing: a cell missing in df is 0, every
\* other cell is as in df.
C1_WindowFilter ==
    pc # "filter" =>
        /\ Len(week.rows) = Cardinality(InsideWindow)
        /\ \A j \in InsideWindow :
              \E i \in 1..Len(week.rows) : week.rows[i]["date"] = df.rows[j]["date"]
        /\ \A i \in 1..Len(week.rows) :
              /\ START_DATE <= week.rows[i]["date"]
              /\ week.rows[i]["date"] <= END_DATE
              /\ \E j \in InsideWindow :
                    /\ df.rows[j]["date"] = week.rows[i]["date"]
                    /\ \A b \in BrandsOfDf :
                          /\ week.rows[i][b] # NaN
                          /\ week.rows[i][b] =
                                IF df.rows[j][b] = NaN THEN 0 ELSE df.rows[j][b]

\* A table with a row on the last day of the window, a row outside it and a
\* missing brand cell inside it has been filtered.
C1_Witness ==
    /\ pc = "select"
    /\ \E j \in InsideWindow : df.rows[j]["date"] = END_DATE
    /\ \E j \in 1..Len(df.rows) : j \notin InsideWindow
    /\ \E j \in InsideWindow : \E b \in BrandsOfDf : df.rows[j][b] = NaN

\* C2: the default selection holds min(5, K) distinct brands, and no brand
\* left out of it has a larger window sum than a brand in it.
C2_DefaultTopFive ==
    pc \notin {"filter", "select"} =>
        /\ Len(default_brands) = Min(5, Cardinality(BrandsOfDf))
        /\ NoRepeats(default_brands)
        /\ Range(default_brands) \subseteq BrandsOfDf
        /\ \A b \in Range(default_brands) :
              \A c \in BrandsOfDf \ Range(default_brands) : WindowSum(b) >= WindowSum(c)

\* More than five brands, one with mentions in the window left out, and a tie
\* across the cut.
C2_Witness ==
    /\ pc = "primary"
    /\ Cardinality(BrandsOfDf) > 5
    /\ \E c \in BrandsOfDf \ Range(default_brands) :
          /\ WindowSum(c) > 0
          /\ \E b \in Range(default_brands) : WindowSum(b) = WindowSum(c)

\* C3: in both rankings two brands with equal sums stand in the order of
\* their columns in the primary table.
C3_TiesByColumnOrder ==
    /\ \A i \in 1..Len(totals) : \A j \in 1..Len(totals) :
          (i < j /\ totals[i].value = totals[j].value)
             => IndexOf(df.columns, totals[i].brand) < IndexOf(df.columns, totals[j].brand)
    /\ \A i \in 1..Len(totals_all) : \A j \in 1..Len(totals_all) :
          (i < j /\ totals_all[i].value = totals_all[j].value)
             => IndexOf(df.columns, totals_all[i].brand)
                  < IndexOf(df.columns, totals_all[j].brand)

\* C4: the Top-10 set is min(10, K) brands that no brand outside it beats on
\* the sum over the whole of df; the chart and the summary table of these
\* brands hold window values only, and the summary is sorted by window total,
\* largest first.
C4_Top10Overall ==
    (pc = "done" /\ show_top10) =>
        /\ Len(top10) = Min(10, Cardinality(BrandsOfDf))
        /\ NoRepeats(top10)
        /\ Range(top10) \subseteq BrandsOfDf
        /\ \A b \in Range(top10) :
              \A c \in BrandsOfDf \ Range(top10) : FullSum(b) >= FullSum(c)
        /\ top10 # <<>> =>
              /\ Len(week_totals_df) = Len(top10)
              /\ {week_totals_df[i].brand : i \in 1..Len(week_totals_df)} = Range(top10)
              /\ \A i \in 1..Len(week_totals_df) :
                    week_totals_df[i].value = WindowSum(week_totals_df[i].brand)
              /\ \A i \in 1..(Len(week_totals_df) - 1) :
                    week_totals_df[i].value >= week_totals_df[i + 1].value
              /\ Emitted("week_totals") /\ BodyOf("week_totals") = week_totals_df
              /\ Emitted("chart2")
              /\ Len(BodyOf("chart2")) = Len(top10) * Cardinality(InsideWindow)
              /\ \A k \in 1..Len(BodyOf("chart2")) :
                    /\ BodyOf("chart2")[k].brand \in Range(top10)
                    /\ START_DATE <= BodyOf("chart2")[k].date
                    /\ BodyOf("chart2")[k].date <= END_DATE

\* More than ten brands; a brand mentioned only outside the window is in the
\* Top-10 table with a window total of 0, and a brand mentioned inside the
\* window is not in it.
C4_Witness ==
    /\ pc = "done" /\ show_top10
    /\ Cardinality(BrandsOfDf) > 10
    /\ \E i \in 1..Len(week_totals_df) :
          /\ week_totals_df[i].value = 0
          /\ FullSum(week_totals_df[i].brand) > 0
    /\ \E c \in BrandsOfDf \ Range(top10) : WindowSum(c) > 0

----------------------------------------------------------------------------
\* Properties of the weekly channel summary.

\* The rows of the file that belong to the group of an aggregated row.
RowsOfGroup(a) ==
    {i \in 1..Len(chwFile.rows) :
        /\ chwFile.rows[i].keyword = a.keyword
        /\ chwFile.rows[i].channel = a.channel
        /\ Overlaps(chwFile, chwFile.rows[i])}

\* Sum of a coerced field over a set of rows of the file.
RawSum(rowset, field) ==
    LET F[i \in 0..Len(chwFile.rows)] ==
            IF i = 0 THEN 0
            ELSE IF i \in rowset THEN F[i - 1] + Coerce(chwFile.rows[i][field])
            ELSE F[i - 1]
    IN F[Len(chwFile.rows)]

\* The index of the first row of the file with the key of an aggregated row.
FirstRow(a) ==
    CHOOSE i \in RowsOfGroup(a) : \A j \in RowsOfGroup(a) : i <= j

\* A per-brand top-3 table of agg by one metric: rows of agg, at most three
\* per brand, the metric never rising within a brand, and no row of agg left
\* out that beats a row of its brand that was kept.
TopThreeOf(T, metric) ==
    /\ \A i \in 1..Len(T) : \E a \in 1..Len(agg) : agg[a] = T[i]
    /\ \A i \in 1..Len(T) :
          Cardinality({j \in 1..Len(T) : T[j].keyword = T[i].keyword}) <= 3
    /\ \A i \in 1..Len(T) : \A j \in 1..Len(T) :
          (i < j /\ T[i].keyword = T[j].keyword) => T[i][metric] >= T[j][metric]
    /\ \A a \in 1..Len(agg) :
          (\A i \in 1..Len(T) : T[i] # agg[a])
             => \A i \in 1..Len(T) :
                   T[i].keyword = agg[a].keyword => agg[a][metric] <= T[i][metric]

\* C5: the reach table and the engagement table are per-brand top-3 tables of
\* agg, by subscribers and by engagement.
C5_TopThree ==
    Emitted("reach") =>
        /\ TopThreeOf(BodyOf("reach"), "subscribers")
        /\ Emitted("eng")
        /\ TopThreeOf(BodyOf("eng"), "engagement")

\* A brand with four channels, one of them with fewer subscribers than the
\* three that are shown.
C5_Witness ==
    /\ Emitted("reach")
    /\ \E a \in 1..Len(agg) :
          /\ Cardinality({b \in 1..Len(agg) : agg[b].keyword = agg[a].keyword}) = 4
          /\ \A i \in 1..Len(BodyOf("reach")) :
                /\ BodyOf("reach")[i] # agg[a]
                /\ agg[a].subscribers < BodyOf("reach")[i].subscribers

\* C6: agg has exactly one row for every (brand, channel) pair among the
\* filtered rows; its subscribers is the largest coerced value of the pair's
\* rows, its views, likeCount and commentCount are the sums of the coerced
\* values, and engagement is the sum of these three.
C6_Aggregation ==
    Emitted("reach") =>
        /\ {<<agg[a].keyword, agg[a].channel>> : a \in 1..Len(agg)}
             = {<<chwFile.rows[i].keyword, chwFile.rows[i].channel>> :
                  i \in {j \in 1..Len(chwFile.rows) :
                           /\ chwFile.rows[j].keyword \in Range(selected)
                           /\ chwFile.rows[j].channel # NoChannel
                           /\ Overlaps(chwFile, chwFile.rows[j])}}
        /\ \A a \in 1..Len(agg) : \A b \in 1..Len(agg) :
              (agg[a].keyword = agg[b].keyword /\ agg[a].channel = agg[b].channel) => a = b
        /\ \A a \in 1..Len(agg) :
              /\ \E i \in RowsOfGroup(agg[a]) :
                    agg[a].subscribers = Coerce(chwFile.rows[i].subscribers)
              /\ \A i \in RowsOfGroup(agg[a]) :
                    Coerce(chwFile.rows[i].subscribers) <= agg[a].subscribers
              /\ agg[a].views = RawSum(RowsOfGroup(agg[a]), "views")
              /\ agg[a].likeCount = RawSum(RowsOfGroup(agg[a]), "likeCount")
              /\ agg[a].commentCount = RawSum(RowsOfGroup(agg[a]), "commentCount")
              /\ agg[a].engagement
                   = agg[a].views + agg[a].likeCount + agg[a].commentCount

\* A channel with two rows, subscribers "10" and "5", likes "x" and "2",
\* comments "" and "4": subscribers 10, views 4, likes 2, comments 4.
C6_Witness ==
    /\ Emitted("reach")
    /\ \E a \in 1..Len(agg) :
          /\ Cardinality(RowsOfGroup(agg[a])) = 2
          /\ \E i \in RowsOfGroup(agg[a]) : chwFile.rows[i].likeCount = <<"x">>
          /\ \E i \in RowsOfGroup(agg[a]) : chwFile.rows[i].likeCount = <<"2">>
          /\ agg[a].subscribers = 10 /\ agg[a].views = 4
          /\ agg[a].likeCount = 2 /\ agg[a].commentCount = 4
          /\ agg[a].engagement = 10

\* The bucket end the claim gives a row: its week_end, and week_start + 6
\* days when the row has none.
BucketEnd(r) ==
    IF "week_end" \in chwFile.columns /\ r.week_end # NaN THEN r.week_end
    ELSE r.week_start + 6

SecondaryLoaded ==
    /\ chwFile.exists /\ chwFile.readable /\ need_cols \subseteq chwFile.columns

\* C9: the rows that feed the aggregation are exactly the rows of a selected
\* brand whose bucket overlaps the window, the bucket of a row without
\* week_end ending at week_start + 6 days.
C9_OverlapFilter ==
    (pc \in {"top10", "top10_render", "done"} /\ selected # <<>> /\ SecondaryLoaded) =>
        LET fed == SelectSeq(chwFile.rows, LAMBDA r :
                       /\ r.keyword \in Range(selected)
                       /\ r.week_start <= END_DATE
                       /\ BucketEnd(r) >= START_DATE)
        IN sub = [i \in 1..Len(fed) |-> SubRow(fed[i])]

\* Ties of a per-brand top-3 table in the order Rank gives the rows of agg:
\* of two tied rows of a brand the one of lower rank comes first, and a tied
\* row that is left out ranks after every tied row that is shown.
TiesOrderedBy(T, metric, Rank(_)) ==
    /\ \A i \in 1..Len(T) : \A j \in 1..Len(T) :
          (i < j /\ T[i].keyword = T[j].keyword /\ T[i][metric] = T[j][metric])
             => Rank(T[i]) < Rank(T[j])
    /\ \A a \in 1..Len(agg) :
          (\A i \in 1..Len(T) : T[i] # agg[a])
             => \A i \in 1..Len(T) :
                   (T[i].keyword = agg[a].keyword /\ T[i][metric] = agg[a][metric])
                      => Rank(T[i]) < Rank(agg[a])

ChannelRank(a) == IndexOf(ChannelNames, a.channel)

\* C10 as claimed: tied channels of a brand stand in the order of their first
\* rows in the file.
C10_TiesByFileOrder ==
    Emitted("reach") =>
        /\ TiesOrderedBy(BodyOf("reach"), "subscribers", FirstRow)
        /\ TiesOrderedBy(BodyOf("eng"), "engagement", FirstRow)

\* C10 as amended: tied channels of a brand stand in the order of the
\* aggregated table, which is the alphabetical order of the channel names.
C10_TiesByChannelName ==
    Emitted("reach") =>
        /\ TiesOrderedBy(BodyOf("reach"), "subscribers", ChannelRank)
        /\ TiesOrderedBy(BodyOf("eng"), "engagement", ChannelRank)

\* Four tied channels of one brand whose rows are not in alphabetical order:
\* the channel that is left out is the last by name, not the last in the file.
C10_Witness ==
    /\ Emitted("reach")
    /\ Len(agg) = 4
    /\ \A a \in 1..Len(agg) : agg[a].keyword = agg[1].keyword
                               /\ agg[a].subscribers = agg[1].subscribers
    /\ \E i \in 1..Len(BodyOf("reach")) : FirstRow(BodyOf("reach")[i]) = 4

----------------------------------------------------------------------------
\* Properties of the render cycle.

\* The summary is absent, unreadable, without its columns, or empty after
\* filtering.
SecondaryUnhealthy ==
    \/ ~SecondaryLoaded
    \/ \A i \in 1..Len(chwFile.rows) :
          ~(chwFile.rows[i].keyword \in Range(selected)
            /\ Overlaps(chwFile, chwFile.rows[i]))

\* C7: with a brand selected, the secondary step leaves the chart and the
\* tidy table on the page as they are, adds a single message when the summary
\* is unhealthy, and hands over to the Top-10 section.
C7_SecondaryNeverAborts ==
    [][(pc = "secondary" /\ selected # <<>>) =>
          /\ pc' = "top10"
          /\ Len(page) = 3
          /\ page[2] = Emit("chart", Melt(week, selected))
          /\ page[3] = Emit("table", SortBrandDate(Melt(week, selected)))
          /\ Len(page') >= Len(page)
          /\ SubSeq(page', 1, Len(page)) = page
          /\ SecondaryUnhealthy =>
                /\ Len(page') = Len(page) + 1
                /\ page'[Len(page')].kind \in {"tip", "warning", "sec_info"}]_vars

\* An unreadable summary has been reported and the Top-10 section is next.
C7_Witness ==
    /\ pc = "top10" /\ selected # <<>>
    /\ Emitted("chart") /\ Emitted("table") /\ Emitted("warning")

\* C8: the selection is a sub-list of the brand columns; with nothing
\* selected the page holds the prompt and no selection-dependent output, and
\* the cycle is not aborted.
C8_EmptySelection ==
    /\ Range(selected) \subseteq BrandsOfDf
    /\ pc # "aborted"
    /\ (selected = <<>> /\ pc \in {"secondary", "top10", "top10_render", "done"}) =>
          /\ Emitted("select_info")
          /\ \A i \in 1..Len(page) :
                page[i].kind \notin {"chart", "table", "reach", "eng",
                                     "sec_info", "warning", "tip"}

\* The user emptied the selection while the summary holds rows of a brand.
C8_Witness ==
    /\ pc = "done" /\ selected = <<>>
    /\ brand_cols # <<>>
    /\ SecondaryLoaded /\ Len(chwFile.rows) > 0

====
